---- MODULE Spec2Model ----
(***************************************************************************)
(* Model of src/Streamlit/Main.py: the quiz generator generate_quiz and    *)
(* the Streamlit session state the page handlers read and write.           *)
(*                                                                         *)
(* One action is one run of the script for one widget event, followed by   *)
(* the run st.rerun() starts when the handler calls it.  The script is     *)
(* executed top to bottom, so a handler sees what the code above it did in *)
(* the same run, and a widget that was rendered above a later assignment   *)
(* keeps what it was rendered with until the next run.                     *)
(***************************************************************************)
EXTENDS Integers, Sequences, FiniteSets, TLC

(***************************************************************************)
(* Bounds of the model.                                                    *)
(***************************************************************************)
MaxParagraphs == 2      \* materials held at once
MaxClock == 1           \* minutes the wall clock may advance
MaxAnswered == 2        \* cap of total_questions_answered
MaxHistory == 2         \* cap of len(quiz_history)

\* A session is explored in one of two scopes, fixed when it starts: many
\* attempts at the quiz of one material (quizzes of up to two questions), or
\* many materials with one attempt (quizzes of one question).
Scopes == {"attempts", "materials"}

Limits ==
  [attempts |-> [paragraphs |-> 1, clock |-> MaxClock,
                 answered |-> MaxAnswered, history |-> MaxHistory],
   materials |-> [paragraphs |-> MaxParagraphs, clock |-> 0,
                  answered |-> 1, history |-> 1]]

(***************************************************************************)
(* Program constants.                                                      *)
(***************************************************************************)
MinSlider == 3
DefaultNumQuestions == 5

NoQuiz == << >>          \* Python None in the quiz position of the result
NoError == "None"        \* Python None in the error position of the result
NoIndex == -1            \* Python None as current_quiz_index

Texts == {"t1", "t2"}    \* stripped, non-empty study materials
Blank == ""              \* a text that is empty after strip()

(***************************************************************************)
(* Python containers.                                                      *)
(***************************************************************************)
EmptyDict == << >>

DictDel(d, k) == [x \in (DOMAIN d) \ {k} |-> d[x]]

DictPut(d, k, v) == [x \in (DOMAIN d) \cup {k} |-> IF x = k THEN v ELSE d[x]]

\* del lst[i] with a 0-based index on a 1-based sequence
ListDel(lst, i) ==
  [j \in 1..(Len(lst) - 1) |-> IF j <= i THEN lst[j] ELSE lst[j + 1]]

\* lst[i] with a 0-based index
ListAt(lst, i) == lst[i + 1]

\* dict insertion order after del d[k]
OrderDel(ord, k) == SelectSeq(ord, LAMBDA x : x # k)

\* dict insertion order after d[k] = v
OrderPut(ord, k) ==
  IF \E j \in 1..Len(ord) : ord[j] = k THEN ord ELSE Append(ord, k)

Range(s) == {s[j] : j \in DOMAIN s}

(***************************************************************************)
(* The completion service's reply, as generate_quiz sees it.               *)
(*                                                                         *)
(* A reply text is a sequence of tokens: "ws" (whitespace), "fence" (a       *)
(* fence), "json" (the fence's tag), "prose" (text without braces), "{"    *)
(* and "}", and the name of a payload: the members of one JSON object.     *)
(* JsonValue gives the object json.loads returns for a payload.            *)
(***************************************************************************)
Question(q, opts, ans) == [question |-> q, options |-> opts, answer |-> ans]

PayloadNames ==
  {"J_one", "J_one_of_two", "J_two", "J_two_by_two", "J_three_opts", "J_dup_opts", "J_bad_answer",
   "J_with_expl", "J_no_key", "J_empty", "J_no_answer", "J_late_no_options",
   "J_no_question"}

JsonValue(p) ==
  CASE p = "J_one" ->
         [quiz |-> << Question("q1", <<"a">>, "a") >>]
    [] p = "J_one_of_two" ->
         [quiz |-> << Question("q1", <<"a", "b">>, "a") >>]
    [] p = "J_two" ->
         [quiz |-> << Question("q1", <<"a", "b">>, "a"),
                      Question("q2", <<"b">>, "b") >>]
    [] p = "J_two_by_two" ->
         [quiz |-> << Question("q1", <<"a", "b">>, "a"),
                      Question("q2", <<"a", "b">>, "b") >>]
    [] p = "J_three_opts" ->
         [quiz |-> << Question("q1", <<"a", "b", "c">>, "c") >>]
    [] p = "J_dup_opts" ->
         [quiz |-> << Question("q1", <<"a", "a", "b">>, "a") >>]
    [] p = "J_bad_answer" ->
         [quiz |-> << Question("q1", <<"a", "b">>, "c") >>]
    [] p = "J_with_expl" ->
         [quiz |-> << [question |-> "q1", options |-> <<"a", "b">>,
                       answer |-> "b", explanation |-> "e1"] >>]
    [] p = "J_no_key" -> [other |-> "x"]
    [] p = "J_empty" -> [quiz |-> << >>]
    [] p = "J_no_answer" ->
         [quiz |-> << [question |-> "q1", options |-> <<"a", "b">>] >>]
    [] p = "J_late_no_options" ->
         [quiz |-> << Question("q1", <<"a", "b">>, "a"),
                      [question |-> "q2", answer |-> "a"] >>]
    [] p = "J_no_question" ->
         [quiz |-> << [options |-> <<"a", "b">>, answer |-> "a"] >>]

\* str.strip() and str.lstrip()/rstrip() on a token sequence
RECURSIVE LStrip(_)
LStrip(t) == IF t # << >> /\ Head(t) = "ws" THEN LStrip(Tail(t)) ELSE t

RECURSIVE RStrip(_)
RStrip(t) ==
  IF t # << >> /\ t[Len(t)] = "ws" THEN RStrip(SubSeq(t, 1, Len(t) - 1)) ELSE t

Strip(t) == RStrip(LStrip(t))

\* generated_text.startswith / endswith of a fence, lines 126-130
StartsWithFenceJson(t) == Len(t) >= 2 /\ t[1] = "fence" /\ t[2] = "json"

StartsWithFence(t) == Len(t) >= 1 /\ t[1] = "fence"

EndsWithFence(t) == Len(t) >= 1 /\ t[Len(t)] = "fence"

\* lines 126-132: the markdown clean-up
CleanMarkdown(t) ==
  LET t1 == IF StartsWithFenceJson(t) THEN SubSeq(t, 3, Len(t)) ELSE t
      t2 == IF StartsWithFence(t1) THEN SubSeq(t1, 2, Len(t1)) ELSE t1
      t3 == IF EndsWithFence(t2) THEN SubSeq(t2, 1, Len(t2) - 1) ELSE t2
  IN  Strip(t3)

\* json.loads succeeds on a document that is one object, whitespace around it
\* allowed; anything else in the text is a JSONDecodeError
JsonParses(t) ==
  LET s == Strip(t)
  IN  Len(s) = 3 /\ s[1] = "{" /\ s[3] = "}" /\ s[2] \in PayloadNames

JsonLoads(t) == JsonValue(Strip(t)[2])

\* re.search with DOTALL, greedy: the first "{" through the last "}"
HasMatch(t) ==
  \E i, j \in 1..Len(t) : i < j /\ t[i] = "{" /\ t[j] = "}"

\* a non-greedy search: the first "{" through the first "}" after it
MatchGroupLazy(t) ==
  LET i == CHOOSE i \in 1..Len(t) :
             t[i] = "{" /\ \A k \in 1..(i - 1) : t[k] # "{"
      j == CHOOSE j \in (i + 1)..Len(t) :
             t[j] = "}" /\ \A k \in (i + 1)..(j - 1) : t[k] # "}"
  IN  SubSeq(t, i, j)

MatchGroup(t) ==
  LET i == CHOOSE i \in 1..Len(t) :
             t[i] = "{" /\ \A k \in 1..(i - 1) : t[k] # "{"
      j == CHOOSE j \in 1..Len(t) :
             t[j] = "}" /\ \A k \in (j + 1)..Len(t) : t[k] # "}"
  IN  SubSeq(t, i, j)

(***************************************************************************)
(* What one requests.post call can do.  kind "timeout" and "transport"     *)
(* raise requests.exceptions.Timeout and another RequestException; kind    *)
(* "http" returns a response with a status, and for status 200 a body      *)
(* whose shape is "ok" (choices[0].message.content is the text) or         *)
(* "bad_body" (response.json() or the path into it raises).                *)
(***************************************************************************)
Http(status, shape, content) ==
  [kind |-> "http", status |-> status, shape |-> shape, content |-> content]

Raises(kind) ==
  [kind |-> kind, status |-> 0, shape |-> "none", content |-> << >>]

MsgNoText == "Please provide text to generate questions from."
MsgNoKey == "API key is required."
MsgRateLimit == "Rate limit exceeded. Please wait a moment and try again."
MsgInvalidKey == "Invalid API Key. Please check your configuration."
MsgAccessDenied == "Access Denied. Please ensure billing is set up"
MsgApiError == "API Error"
MsgParse == "Failed to parse quiz response."
MsgNoQuestions == "No questions generated. Try with more detailed text."
MsgInvalidFormat == "Invalid question format received."
MsgTimeout == "Request timed out."
MsgNetwork == "Network error"
MsgUnexpected == "Unexpected error"

\* the module-level API_KEY: the script stops at line 49 without one
HasApiKey == TRUE

Returned(quiz, error) == [quiz |-> quiz, error |-> error]

(***************************************************************************)
(* random.shuffle(q["options"]): the list is permuted in place; which      *)
(* permutation is the random source's choice p.                            *)
(***************************************************************************)
Perms(n) ==
  {p \in [1..n -> 1..n] : \A i, j \in 1..n : p[i] = p[j] => i = j}

\* a shuffle that repeats one option in every place
ShuffleDup(opts, p) == [i \in 1..Len(opts) |-> opts[p[1]]]

\* line 155: random.shuffle, the permutation p drawn by the random source
Shuffle(opts, p) == [i \in 1..Len(opts) |-> opts[p[i]]]

\* line 153
WellFormed(q) == {"options", "answer", "question"} \subseteq DOMAIN q

\* lines 154-156, for one question
ShuffleQuestion(q, p) ==
  LET correct == q.answer
      shuffled == [q EXCEPT !.options = Shuffle(q.options, p)]
  IN  [shuffled EXCEPT !.answer = correct]

\* lines 134-145: quiz_data, or "no parse"
ParseFails(generated_text) ==
  /\ ~JsonParses(generated_text)
  /\ ~(HasMatch(generated_text) /\ JsonParses(MatchGroup(generated_text)))

QuizData(generated_text) ==
  IF JsonParses(generated_text)
  THEN JsonLoads(generated_text)
  ELSE JsonLoads(MatchGroup(generated_text))

\* line 147: quiz_data.get("quiz", [])
QuizQuestions(quiz_data) ==
  IF "quiz" \in DOMAIN quiz_data THEN quiz_data.quiz ELSE << >>

\* a loop that stops at the first malformed question and keeps the ones
\* before it
ValidateKeepingPrefix(quiz_questions, rnd) ==
  LET bad == {k \in 1..Len(quiz_questions) : ~WellFormed(quiz_questions[k])}
      last == IF bad = {} THEN Len(quiz_questions)
              ELSE (CHOOSE k \in bad : \A j \in bad : k <= j) - 1
  IN  Returned([k \in 1..last |-> ShuffleQuestion(quiz_questions[k], rnd[k])],
               NoError)

\* lines 152-160: the loop returns at the first malformed question
ValidateAndShuffle(quiz_questions, rnd) ==
  IF \E k \in 1..Len(quiz_questions) : ~WellFormed(quiz_questions[k])
  THEN Returned(NoQuiz, MsgInvalidFormat)
  ELSE Returned([k \in 1..Len(quiz_questions) |->
                   ShuffleQuestion(quiz_questions[k], rnd[k])],
                NoError)

\* the status 200 path without the test of lines 149-150
OnSuccessStatusNoEmptyCheck(response, rnd) ==
  IF response.shape # "ok"
  THEN Returned(NoQuiz, MsgUnexpected)
  ELSE LET generated_text == CleanMarkdown(Strip(response.content))
       IN  IF ParseFails(generated_text)
           THEN Returned(NoQuiz, MsgParse)
           ELSE ValidateAndShuffle(QuizQuestions(QuizData(generated_text)),
                                   rnd)

\* lines 122-160: a response with status 200
OnSuccessStatus(response, rnd) ==
  IF response.shape # "ok"
  THEN Returned(NoQuiz, MsgUnexpected)
  ELSE LET generated_text == CleanMarkdown(Strip(response.content))
       IN  IF ParseFails(generated_text)
           THEN Returned(NoQuiz, MsgParse)
           ELSE LET quiz_questions == QuizQuestions(QuizData(generated_text))
                IN  IF quiz_questions = << >>
                    THEN Returned(NoQuiz, MsgNoQuestions)
                    ELSE ValidateAndShuffle(quiz_questions, rnd)

\* lines 105-167: one request, no loop around it
OnResponse(response, rnd) ==
  CASE response.kind = "timeout" -> Returned(NoQuiz, MsgTimeout)
    [] response.kind = "transport" -> Returned(NoQuiz, MsgNetwork)
    [] response.kind = "http" /\ response.status = 429 ->
         Returned(NoQuiz, MsgRateLimit)
    [] response.kind = "http" /\ response.status = 401 ->
         Returned(NoQuiz, MsgInvalidKey)
    [] response.kind = "http" /\ response.status = 403 ->
         Returned(NoQuiz, MsgAccessDenied)
    [] response.kind = "http" /\ response.status \notin {429, 401, 403, 200} ->
         Returned(NoQuiz, MsgApiError)
    [] response.kind = "http" /\ response.status = 200 ->
         OnSuccessStatus(response, rnd)

(***************************************************************************)
(* generate_quiz(text, num_questions).  service is what the completion     *)
(* service would answer to the first, second, ... request of this call;    *)
(* rnd[k] is the permutation random.shuffle draws for question k.          *)
(***************************************************************************)
generate_quiz(text, num_questions, service, rnd) ==
  IF text = Blank
  THEN Returned(NoQuiz, MsgNoText)
  ELSE IF ~HasApiKey
       THEN Returned(NoQuiz, MsgNoKey)
       ELSE OnResponse(service[1], rnd)

\* a request sent before the text is looked at
RequestsBeforeTextCheck(text, service) == IF service = << >> THEN 0 ELSE 1

\* requests.post calls made by one generate_quiz call
requests_sent(text, service) ==
  IF text = Blank \/ ~HasApiKey THEN 0 ELSE 1

(***************************************************************************)
(* Inputs: token texts around a payload, responses, and the permutations   *)
(* the random source can draw for a response's questions.                  *)
(***************************************************************************)
ContentsOf(p) ==
  { <<"{", p, "}">>,
    <<"ws", "{", p, "}", "ws">>,
    <<"fence", "json", "ws", "{", p, "}", "ws", "fence">>,
    <<"fence", "ws", "{", p, "}", "ws", "fence">>,
    <<"prose", "{", p, "}", "prose">>,
    <<"{", p, "}", "prose", "}">>,
    <<"{", p>>,
    <<"prose">> }

FailureResponses ==
  { Raises("timeout"), Raises("transport"),
    Http(429, "none", << >>), Http(401, "none", << >>),
    Http(403, "none", << >>), Http(500, "none", << >>),
    Http(200, "bad_body", << >>) }

\* the questions a response leads the loop of lines 152-158 to visit
QuestionsOf(response) ==
  IF response.kind = "http" /\ response.status = 200 /\ response.shape = "ok"
     /\ ~ParseFails(CleanMarkdown(Strip(response.content)))
  THEN QuizQuestions(QuizData(CleanMarkdown(Strip(response.content))))
  ELSE << >>

\* one permutation per question that has an options list
RandomChoices(response) ==
  LET qs == QuestionsOf(response)
  IN  { rnd \in [1..Len(qs) -> UNION {Perms(n) : n \in 0..3}] :
          \A k \in 1..Len(qs) :
            rnd[k] \in Perms(IF "options" \in DOMAIN qs[k]
                             THEN Len(qs[k].options) ELSE 0) }

(***************************************************************************)
(* Session state (init_session_state, lines 172-188) and what the model    *)
(* keeps beside it.                                                        *)
(*   quiz_order      insertion order of the saved_quizzes dict             *)
(*   quiz_source     the text each stored quiz was generated from          *)
(*   now             the wall clock, in minutes                            *)
(*   submit_enabled  the Submit button is on screen and not disabled       *)
(*   call            one generate_quiz call on its own (GenSpec)           *)
(*   scope           the scope whose bounds the session is explored in     *)
(* api_calls_made is only displayed, and num_questions only reaches the    *)
(* prompt; neither is kept: the slider's value is an input of each run.    *)
(***************************************************************************)
VARIABLES page, paragraphs, saved_quizzes, quiz_order, quiz_source,
          current_quiz_index, user_answers, show_results, quiz_history,
          total_questions_answered, total_correct_answers,
          now, submit_enabled, call, scope

vars == <<page, paragraphs, saved_quizzes, quiz_order, quiz_source,
          current_quiz_index, user_answers, show_results, quiz_history,
          total_questions_answered, total_correct_answers,
          now, submit_enabled, call, scope>>

Limit == Limits[scope]

store == <<paragraphs, saved_quizzes, quiz_order, quiz_source>>
attempt == <<current_quiz_index, user_answers, show_results>>
stats == <<total_questions_answered, total_correct_answers>>

SliderValues == {MinSlider, DefaultNumQuestions}    \* of 3..10, line 423

IdleCall ==
  [text |-> Blank, num_questions |-> DefaultNumQuestions, service |-> << >>,
   rnd |-> << >>, done |-> FALSE, requests |-> 0,
   result |-> Returned(NoQuiz, NoError)]

SessionDefaults ==
  /\ page = "main"
  /\ paragraphs = << >>
  /\ saved_quizzes = EmptyDict
  /\ quiz_order = << >>
  /\ quiz_source = EmptyDict
  /\ current_quiz_index = NoIndex
  /\ user_answers = EmptyDict
  /\ show_results = FALSE
  /\ quiz_history = << >>
  /\ total_questions_answered = 0
  /\ total_correct_answers = 0
  /\ submit_enabled = FALSE

Init ==
  /\ SessionDefaults
  /\ now = 0
  /\ call = IdleCall
  /\ scope \in Scopes

(***************************************************************************)
(* The quiz page, lines 814-966.                                           *)
(***************************************************************************)
\* line 827
Answered(quiz, answers) ==
  Cardinality({i \in 0..(Len(quiz) - 1) : i \in DOMAIN answers})

\* a count that starts at one
ScoreOffByOne(quiz, answers) ==
  1 + Cardinality({i \in 0..(Len(quiz) - 1) :
                     i \in DOMAIN answers
                       /\ answers[i] = ListAt(quiz, i).answer})

\* lines 885-893
Score(quiz, answers) ==
  Cardinality({i \in 0..(Len(quiz) - 1) :
                 i \in DOMAIN answers /\ answers[i] = ListAt(quiz, i).answer})

\* a lookup that matches the minute against the entries of other quizzes
AlreadyRecordedOtherQuiz(history, index, t) ==
  \E k \in 1..Len(history) :
    history[k].date = t /\ history[k].quiz_index # index

\* line 921: the any(...) over quiz_history, with the clock at minute t
AlreadyRecorded(history, index, t) ==
  \E k \in 1..Len(history) :
    history[k].date = t /\ history[k].quiz_index = index

HistoryEntry(t, score, total, index) ==
  [date |-> t, correct |-> score, total |-> total, quiz_index |-> index]

\* a results block that puts the new entry in front of the others
ResultsBlockPrepending(quiz, index, answers, tqa, tca, history) ==
  LET total == Len(quiz)
      score == Score(quiz, answers)
  IN  /\ tqa + total <= Limit.answered
      /\ total_questions_answered' = tqa + total
      /\ total_correct_answers' = tca + score
      /\ IF AlreadyRecorded(history, index, now)
         THEN /\ quiz_history' = history
              /\ now' = now
         ELSE /\ Len(history) < Limit.history
              /\ \E t2 \in {now, now + 1} :
                   /\ t2 <= Limit.clock
                   /\ now' = t2
                   /\ quiz_history' =
                        <<HistoryEntry(t2, score, total, index)>> \o history

\* lines 885-928: the results block adds to the counters and to the history
\* each time it is executed; the clock is read at line 921 and again at 923
ResultsBlock(quiz, index, answers, tqa, tca, history) ==
  LET total == Len(quiz)
      score == Score(quiz, answers)
  IN  /\ tqa + total <= Limit.answered
      /\ total_questions_answered' = tqa + total
      /\ total_correct_answers' = tca + score
      /\ IF AlreadyRecorded(history, index, now)
         THEN /\ quiz_history' = history
              /\ now' = now
         ELSE /\ Len(history) < Limit.history
              /\ \E t2 \in {now, now + 1} :
                   /\ t2 <= Limit.clock
                   /\ now' = t2
                   /\ quiz_history' =
                        Append(history, HistoryEntry(t2, score, total, index))

\* the script from line 466 on in a run that handles no widget event, with
\* the session state the code above it left
PageRun(pg, quizzes, index, answers, results, tqa, tca, history) ==
  IF pg = "quiz" /\ index \in DOMAIN quizzes
  THEN /\ submit_enabled' = ~(Answered(quizzes[index], answers)
                                < Len(quizzes[index]))
       /\ IF results
          THEN ResultsBlock(quizzes[index], index, answers, tqa, tca, history)
          ELSE /\ total_questions_answered' = tqa
               /\ total_correct_answers' = tca
               /\ quiz_history' = history
               /\ now' = now
  ELSE /\ submit_enabled' = FALSE
       /\ total_questions_answered' = tqa
       /\ total_correct_answers' = tca
       /\ quiz_history' = history
       /\ now' = now

\* The page code that follows a handler which left the counters and the
\* history alone: in the next run when the handler ends in st.rerun(), in the
\* same run when it falls through.
Rerun ==
  PageRun(page', saved_quizzes', current_quiz_index', user_answers',
          show_results', total_questions_answered, total_correct_answers,
          quiz_history)

(***************************************************************************)
(* Sidebar, lines 372-453.  It is executed before the page in every run.   *)
(***************************************************************************)
\* lines 378-381
NavHome ==
  /\ page' = "main"
  /\ show_results' = FALSE
  /\ UNCHANGED <<store, current_quiz_index, user_answers, call, scope>>
  /\ Rerun

\* lines 383-385
NavLibrary ==
  /\ page' = "quiz_library"
  /\ UNCHANGED <<store, attempt, call, scope>>
  /\ Rerun

\* lines 387-389
NavStats ==
  /\ page' = "stats"
  /\ UNCHANGED <<store, attempt, call, scope>>
  /\ Rerun

\* lines 391-393
NavHistory ==
  /\ page' = "history"
  /\ UNCHANGED <<store, attempt, call, scope>>
  /\ Rerun

\* lines 423-424: moving the slider starts a run that handles no button
MoveSlider ==
  /\ UNCHANGED <<page, store, attempt, call, scope>>
  /\ Rerun

\* lines 431-437
ClearAllData ==
  /\ IF paragraphs # << >> \/ DOMAIN saved_quizzes # {}
     THEN /\ paragraphs' = << >>
          /\ saved_quizzes' = EmptyDict
          /\ quiz_order' = << >>
          /\ quiz_source' = EmptyDict
          /\ UNCHANGED <<page, attempt>>
          /\ PageRun(page', saved_quizzes', current_quiz_index',
                     user_answers', show_results', total_questions_answered,
                     total_correct_answers, << >>)
     ELSE /\ UNCHANGED <<page, store, attempt>>
          /\ Rerun
  /\ UNCHANGED <<call, scope>>

\* lines 439-444
ResetStats ==
  /\ UNCHANGED <<page, store, attempt, call, scope>>
  /\ PageRun(page', saved_quizzes', current_quiz_index', user_answers',
             show_results', 0, 0, quiz_history)

\* lines 446-453
RandomQuiz(random_idx) ==
  /\ random_idx \in DOMAIN saved_quizzes
  /\ current_quiz_index' = random_idx
  /\ user_answers' = EmptyDict
  /\ show_results' = FALSE
  /\ page' = "quiz"
  /\ UNCHANGED <<store, call, scope>>
  /\ Rerun

(***************************************************************************)
(* Main page, lines 466-640.                                               *)
(***************************************************************************)
\* lines 542-548
SaveMaterial(user_input) ==
  /\ page = "main"
  /\ IF user_input # Blank
     THEN /\ Len(paragraphs) < Limit.paragraphs
          /\ paragraphs' = Append(paragraphs, user_input)
     ELSE UNCHANGED paragraphs
  /\ UNCHANGED <<page, saved_quizzes, quiz_order, quiz_source, attempt, call, scope>>
  /\ Rerun

\* lines 559-565, 601-607, 625-631: if error ... elif quiz ...
StoreResult(quizzes, order, sources, idx, text, result) ==
  IF result.error = NoError /\ result.quiz # NoQuiz
  THEN /\ saved_quizzes' = DictPut(quizzes, idx, result.quiz)
       /\ quiz_order' = OrderPut(order, idx)
       /\ quiz_source' = DictPut(sources, idx, text)
  ELSE /\ saved_quizzes' = quizzes
       /\ quiz_order' = order
       /\ quiz_source' = sources

\* lines 551-565
GenerateQuizNow(user_input, num_questions, service, rnd) ==
  /\ page = "main"
  /\ user_input # Blank
  /\ Len(paragraphs) < Limit.paragraphs
  /\ paragraphs' = Append(paragraphs, user_input)
  /\ LET idx == Len(paragraphs') - 1
     IN  StoreResult(saved_quizzes, quiz_order, quiz_source, idx, user_input,
                     generate_quiz(user_input, num_questions, service, rnd))
  /\ UNCHANGED <<page, attempt, call, scope>>
  /\ Rerun

\* lines 567-573
ClearAll ==
  /\ page = "main"
  /\ paragraphs # << >>
  /\ paragraphs' = << >>
  /\ saved_quizzes' = EmptyDict
  /\ quiz_order' = << >>
  /\ quiz_source' = EmptyDict
  /\ UNCHANGED <<page, attempt, call, scope>>
  /\ Rerun

\* line 580 and 583: material i is listed, with or without a quiz
Listed(i) == page = "main" /\ i \in 0..(Len(paragraphs) - 1)

\* lines 589-594
TakeQuiz(i) ==
  /\ Listed(i) /\ i \in DOMAIN saved_quizzes
  /\ current_quiz_index' = i
  /\ user_answers' = EmptyDict
  /\ show_results' = FALSE
  /\ page' = "quiz"
  /\ UNCHANGED <<store, call, scope>>
  /\ Rerun

\* lines 596-607
RegenQuiz(i, num_questions, service, rnd) ==
  /\ Listed(i) /\ i \in DOMAIN saved_quizzes
  /\ StoreResult(DictDel(saved_quizzes, i), OrderDel(quiz_order, i),
                 DictDel(quiz_source, i), i, ListAt(paragraphs, i),
                 generate_quiz(ListAt(paragraphs, i), num_questions, service,
                               rnd))
  /\ UNCHANGED <<page, paragraphs, attempt, call, scope>>
  /\ Rerun

\* lines 609-614
DeleteWithQuiz(i) ==
  /\ Listed(i) /\ i \in DOMAIN saved_quizzes
  /\ paragraphs' = ListDel(paragraphs, i)
  /\ saved_quizzes' = DictDel(saved_quizzes, i)
  /\ quiz_order' = OrderDel(quiz_order, i)
  /\ quiz_source' = DictDel(quiz_source, i)
  /\ UNCHANGED <<page, attempt, call, scope>>
  /\ Rerun

\* lines 621-631
GenerateQuiz(i, num_questions, service, rnd) ==
  /\ Listed(i) /\ i \notin DOMAIN saved_quizzes
  /\ StoreResult(saved_quizzes, quiz_order, quiz_source, i,
                 ListAt(paragraphs, i),
                 generate_quiz(ListAt(paragraphs, i), num_questions, service,
                               rnd))
  /\ UNCHANGED <<page, paragraphs, attempt, call, scope>>
  /\ Rerun

\* lines 633-636
DeleteNoQuiz(i) ==
  /\ Listed(i) /\ i \notin DOMAIN saved_quizzes
  /\ paragraphs' = ListDel(paragraphs, i)
  /\ UNCHANGED <<page, saved_quizzes, quiz_order, quiz_source, attempt, call, scope>>
  /\ Rerun

(***************************************************************************)
(* Quiz library page, lines 645-683.                                       *)
(***************************************************************************)
\* lines 649-651
LibraryGoHome ==
  /\ page = "quiz_library"
  /\ page' = "main"
  /\ UNCHANGED <<store, attempt, call, scope>>
  /\ Rerun

\* lines 658-659: the loop visits the dict in insertion order and line 659
\* raises IndexError at the first key that is no index of paragraphs, so the
\* card of idx is on screen only if every key up to it is an index
CardShown(idx) ==
  /\ page = "quiz_library"
  /\ \E r \in 1..Len(quiz_order) :
       /\ quiz_order[r] = idx
       /\ \A j \in 1..r : quiz_order[j] < Len(paragraphs)

\* lines 670-675
LibraryTake(idx) ==
  /\ CardShown(idx)
  /\ current_quiz_index' = idx
  /\ user_answers' = EmptyDict
  /\ show_results' = FALSE
  /\ page' = "quiz"
  /\ UNCHANGED <<store, call, scope>>
  /\ Rerun

\* lines 677-681
LibraryDelete(idx) ==
  /\ CardShown(idx)
  /\ saved_quizzes' = DictDel(saved_quizzes, idx)
  /\ quiz_order' = OrderDel(quiz_order, idx)
  /\ quiz_source' = DictDel(quiz_source, idx)
  /\ paragraphs' = ListDel(paragraphs, idx)
  /\ UNCHANGED <<page, attempt, call, scope>>
  /\ Rerun

(***************************************************************************)
(* History page, lines 755-809.                                            *)
(***************************************************************************)
\* lines 758-760
HistoryGoHome ==
  /\ page = "history"
  /\ page' = "main"
  /\ UNCHANGED <<store, attempt, call, scope>>
  /\ Rerun

\* lines 806-809
ClearHistory ==
  /\ page = "history"
  /\ quiz_history # << >>
  /\ UNCHANGED <<page, store, attempt, call, scope>>
  /\ PageRun(page', saved_quizzes', current_quiz_index', user_answers',
             show_results', total_questions_answered, total_correct_answers,
             << >>)

(***************************************************************************)
(* Quiz page, lines 814-966.  The side column (answered count, Submit,     *)
(* Reset, Home, My Quizzes) is executed before the main column (the radios *)
(* or the results block and its three buttons).                            *)
(***************************************************************************)
\* line 815, else branch
QuizShown == page = "quiz" /\ current_quiz_index \in DOMAIN saved_quizzes

ActiveQuiz == saved_quizzes[current_quiz_index]

\* lines 817-819
QuizGoHome ==
  /\ page = "quiz" /\ ~QuizShown
  /\ page' = "main"
  /\ UNCHANGED <<store, attempt, call, scope>>
  /\ Rerun

\* lines 837-839: the click needs the button as the last run rendered it
SubmitQuiz ==
  /\ QuizShown
  /\ submit_enabled
  /\ show_results' = TRUE
  /\ UNCHANGED <<page, store, current_quiz_index, user_answers, call, scope>>
  /\ Rerun

\* lines 841-844
ResetQuiz ==
  /\ QuizShown
  /\ user_answers' = EmptyDict
  /\ show_results' = FALSE
  /\ UNCHANGED <<page, store, current_quiz_index, call, scope>>
  /\ Rerun

\* lines 846-849
QuizHomeSidebar ==
  /\ QuizShown
  /\ page' = "main"
  /\ show_results' = FALSE
  /\ UNCHANGED <<store, current_quiz_index, user_answers, call, scope>>
  /\ Rerun

\* lines 851-854
QuizLibSidebar ==
  /\ QuizShown
  /\ page' = "quiz_library"
  /\ show_results' = FALSE
  /\ UNCHANGED <<store, current_quiz_index, user_answers, call, scope>>
  /\ Rerun

\* a recording that keeps only the answer just given
RecordAnswerForgetting(i, answer) ==
  /\ QuizShown /\ ~show_results
  /\ i \in 0..(Len(ActiveQuiz) - 1)
  /\ answer \in Range(ListAt(ActiveQuiz, i).options)
  /\ ~(i \in DOMAIN user_answers /\ user_answers[i] = answer)
  /\ submit_enabled' = ~(Answered(ActiveQuiz, user_answers) < Len(ActiveQuiz))
  /\ user_answers' = [x \in {i} |-> answer]
  /\ UNCHANGED <<page, store, current_quiz_index, show_results, quiz_history,
                 stats, now, call, scope>>

\* lines 861-878, and 827-837 above them in the same run: the user picks
\* option answer of question i; the side column has already counted the
\* answers and rendered Submit when line 878 records the new one.  A radio
\* that is not touched returns the answer it was rendered with.
RecordAnswer(i, answer) ==
  /\ QuizShown /\ ~show_results
  /\ i \in 0..(Len(ActiveQuiz) - 1)
  /\ answer \in Range(ListAt(ActiveQuiz, i).options)
  /\ ~(i \in DOMAIN user_answers /\ user_answers[i] = answer)
  /\ submit_enabled' = ~(Answered(ActiveQuiz, user_answers) < Len(ActiveQuiz))
  /\ user_answers' = DictPut(user_answers, i, answer)
  /\ UNCHANGED <<page, store, current_quiz_index, show_results, quiz_history,
                 stats, now, call, scope>>

\* a Retake that leaves the answers in place
RetakeKeepingAnswers ==
  /\ QuizShown /\ show_results
  /\ ResultsBlock(ActiveQuiz, current_quiz_index, user_answers,
                  total_questions_answered, total_correct_answers,
                  quiz_history)
  /\ show_results' = FALSE
  /\ submit_enabled' = ~(Answered(ActiveQuiz, user_answers) < Len(ActiveQuiz))
  /\ UNCHANGED <<page, store, current_quiz_index, user_answers, call, scope>>

\* lines 885-928 and then 951-954: the results block is executed in the run
\* that handles the click, before the handler
Retake ==
  /\ QuizShown /\ show_results
  /\ ResultsBlock(ActiveQuiz, current_quiz_index, user_answers,
                  total_questions_answered, total_correct_answers,
                  quiz_history)
  /\ user_answers' = EmptyDict
  /\ show_results' = FALSE
  /\ submit_enabled' = ~(Answered(ActiveQuiz, user_answers') < Len(ActiveQuiz))
  /\ UNCHANGED <<page, store, current_quiz_index, call, scope>>

\* lines 885-928 and then 957-960
ResultsLibrary ==
  /\ QuizShown /\ show_results
  /\ ResultsBlock(ActiveQuiz, current_quiz_index, user_answers,
                  total_questions_answered, total_correct_answers,
                  quiz_history)
  /\ page' = "quiz_library"
  /\ show_results' = FALSE
  /\ submit_enabled' = FALSE
  /\ UNCHANGED <<store, current_quiz_index, user_answers, call, scope>>

\* lines 885-928 and then 963-966
ResultsHome ==
  /\ QuizShown /\ show_results
  /\ ResultsBlock(ActiveQuiz, current_quiz_index, user_answers,
                  total_questions_answered, total_correct_answers,
                  quiz_history)
  /\ page' = "main"
  /\ show_results' = FALSE
  /\ submit_enabled' = FALSE
  /\ UNCHANGED <<store, current_quiz_index, user_answers, call, scope>>

\* datetime.now() moves to the next minute between two runs
Tick ==
  /\ now < Limit.clock
  /\ now' = now + 1
  /\ UNCHANGED <<page, store, attempt, quiz_history, stats,
                 submit_enabled, call, scope>>

(***************************************************************************)
(* The session: one widget event per step.                                 *)
(***************************************************************************)
ShortResponses ==
  { Raises("timeout"), Raises("transport"),
    Http(429, "none", << >>), Http(500, "none", << >>),
    Http(200, "ok", <<"prose">>),
    Http(200, "ok", <<"{", "J_empty", "}">>),
    Http(200, "ok", <<"{", "J_late_no_options", "}">>),
    Http(200, "ok", <<"{", "J_one", "}">>) }

AppResponses ==
  ShortResponses \cup
  { Http(200, "ok", <<"fence", "json", "ws", "{", "J_two", "}", "ws", "fence">>) }

Indices == 0..(MaxParagraphs - 1)

CallsOf(responses) ==
  UNION {{[service |-> <<r>>, rnd |-> x, num_questions |-> DefaultNumQuestions]
            : x \in RandomChoices(r)} : r \in responses}

AttemptsCalls == CallsOf(AppResponses)

MaterialsCalls == CallsOf(ShortResponses)

AppCalls == IF scope = "materials" THEN MaterialsCalls ELSE AttemptsCalls

Next ==
  \/ NavHome
  \/ NavLibrary
  \/ NavStats
  \/ NavHistory
  \/ MoveSlider
  \/ ClearAllData
  \/ ResetStats
  \/ \E random_idx \in Indices : RandomQuiz(random_idx)
  \/ \E user_input \in Texts \cup {Blank} : SaveMaterial(user_input)
  \/ \E user_input \in Texts, c \in AppCalls :
       GenerateQuizNow(user_input, c.num_questions, c.service, c.rnd)
  \/ \E i \in Indices, c \in AppCalls :
       RegenQuiz(i, c.num_questions, c.service, c.rnd)
  \/ \E i \in Indices, c \in AppCalls :
       GenerateQuiz(i, c.num_questions, c.service, c.rnd)
  \/ ClearAll
  \/ \E i \in Indices : TakeQuiz(i)
  \/ \E i \in Indices : DeleteWithQuiz(i)
  \/ \E i \in Indices : DeleteNoQuiz(i)
  \/ LibraryGoHome
  \/ \E idx \in Indices : LibraryTake(idx)
  \/ \E idx \in Indices : LibraryDelete(idx)
  \/ HistoryGoHome
  \/ ClearHistory
  \/ QuizGoHome
  \/ SubmitQuiz
  \/ ResetQuiz
  \/ QuizHomeSidebar
  \/ QuizLibSidebar
  \/ \E i \in Indices, answer \in {"a", "b"} : RecordAnswer(i, answer)
  \/ Retake
  \/ ResultsLibrary
  \/ ResultsHome
  \/ Tick

Spec == Init /\ [][Next]_vars

(***************************************************************************)
(* generate_quiz on its own: one call per behaviour, its arguments, the    *)
(* service's answers and the random source's draws chosen at the start.    *)
(***************************************************************************)
GoodResponse == Http(200, "ok", <<"{", "J_one_of_two", "}">>)

AllResponses ==
  FailureResponses \cup
  {Http(200, "ok", c) : c \in UNION {ContentsOf(p) : p \in PayloadNames}}

\* the service's answers to the first and, if asked, the second request
Services ==
  {<<r>> : r \in AllResponses} \cup
  {<<r, GoodResponse>> : r \in FailureResponses}

GenCalls ==
  {c \in [text : {Blank, "t1"}, num_questions : SliderValues,
          service : Services,
          rnd : UNION {RandomChoices(r) : r \in AllResponses},
          done : {FALSE}, requests : {0},
          result : {Returned(NoQuiz, NoError)}] :
     c.rnd \in RandomChoices(c.service[1])}

GenInit ==
  /\ SessionDefaults
  /\ now = 0
  /\ scope = "attempts"
  /\ call \in GenCalls

CallGenerateQuiz ==
  /\ ~call.done
  /\ call' = [call EXCEPT
                !.done = TRUE,
                !.requests = requests_sent(call.text, call.service),
                !.result = generate_quiz(call.text, call.num_questions,
                                         call.service, call.rnd)]
  /\ UNCHANGED <<page, store, attempt, quiz_history, stats, now,
                 submit_enabled, scope>>

GenNext == CallGenerateQuiz

GenSpec == GenInit /\ [][GenNext]_vars

(***************************************************************************)
(* Claims.                                                                 *)
(***************************************************************************)
\* the calls of the session whose generate_quiz returns an error
FailedCalls ==
  {c \in AppCalls :
     generate_quiz("t1", c.num_questions, c.service, c.rnd).error # NoError}

FailedGeneration ==
  \E c \in FailedCalls :
    \/ \E user_input \in Texts :
         GenerateQuizNow(user_input, c.num_questions, c.service, c.rnd)
    \/ \E i \in Indices : RegenQuiz(i, c.num_questions, c.service, c.rnd)
    \/ \E i \in Indices : GenerateQuiz(i, c.num_questions, c.service, c.rnd)

\* C1: a generation that fails, from any of the three entry points (Generate
\* Quiz Now, Generate, Regen), leaves saved_quizzes as it was before the
\* action; a failed Regen of material i keeps the quiz stored for i.
C1_FailedGenerationKeepsQuizzes ==
  [][FailedGeneration => saved_quizzes' = saved_quizzes]_vars

\* C2: every key of saved_quizzes is an index of paragraphs.
C2_KeysAreIndices ==
  \A i \in DOMAIN saved_quizzes : 0 <= i /\ i < Len(paragraphs)

\* C3: the quiz stored under key i was generated from the text that is now
\* at paragraphs[i] (stated for the keys that are indices of paragraphs).
C3_QuizBelongsToItsMaterial ==
  \A i \in DOMAIN saved_quizzes :
    i < Len(paragraphs) => quiz_source[i] = ListAt(paragraphs, i)

AllAnswered == Answered(ActiveQuiz, user_answers) = Len(ActiveQuiz)

\* C4: while a quiz is on the quiz page, Submit can be clicked if and only
\* if every question index of the quiz has a recorded answer.
C4_SubmitIffAllAnswered == QuizShown => (submit_enabled <=> AllAnswered)

\* C5: once the results are shown, a further run of the script (a re-render
\* or the click on Retake) leaves total_questions_answered and
\* total_correct_answers as the submit left them.
C5_CountedOncePerSubmit ==
  [][(QuizShown /\ show_results /\ (MoveSlider \/ Retake))
       => UNCHANGED stats]_vars

\* C6: while the results of one submission stay on the page, a re-run of the
\* script appends no further entry to quiz_history, whatever the clock says.
C6_OneAttemptPerSubmit ==
  [][(QuizShown /\ show_results /\ MoveSlider)
       => quiz_history' = quiz_history]_vars

NoDuplicatePair(history) ==
  \A j, k \in 1..Len(history) :
    (history[j].date = history[k].date
       /\ history[j].quiz_index = history[k].quiz_index) => j = k

\* the entry of quiz index and minute t, if the history holds one
HoldsPair(history, index, t) ==
  \E j \in 1..Len(history) :
    history[j].date = t /\ history[j].quiz_index = index

\* C7: quiz_history never holds two entries with the same quiz_index and the
\* same date (the timestamp cut to the minute), and a step that runs the
\* results block while the history already holds the entry of the active
\* quiz and the minute it reads leaves quiz_history as it was.
C7_OneEntryPerQuizAndMinute ==
  /\ []NoDuplicatePair(quiz_history)
  /\ [][(/\ QuizShown /\ show_results
          /\ (MoveSlider \/ Retake \/ ResultsLibrary \/ ResultsHome)
          /\ HoldsPair(quiz_history, current_quiz_index, now'))
         => quiz_history' = quiz_history]_vars

\* C7 witness: the results block of a one-question quiz has been executed
\* twice (the counter says so) and the second execution found the entry of
\* this quiz and this minute, so the history holds that one entry only.
C7_Witness ==
  /\ QuizShown /\ show_results
  /\ Len(ActiveQuiz) = 1
  /\ total_questions_answered = 2
  /\ Len(quiz_history) = 1
  /\ quiz_history[1].date = now
  /\ quiz_history[1].quiz_index = current_quiz_index

\* C8: every question of a quiz that generate_quiz returns has its answer
\* among its options.
C8_AnswerAmongOptions ==
  (call.done /\ call.result.quiz # NoQuiz) =>
    \A k \in 1..Len(call.result.quiz) :
      call.result.quiz[k].answer \in Range(call.result.quiz[k].options)

Occurrences(seq, x) == Cardinality({j \in DOMAIN seq : seq[j] = x})

SameMultiset(a, b) ==
  \A x \in Range(a) \cup Range(b) : Occurrences(a, x) = Occurrences(b, x)

\* C9: for every question of a returned quiz, the options after the shuffle
\* are the options of the reply in some order (same multiset, same number),
\* and question and answer are the reply's; an answer that was among the
\* options still is.
C9_ShuffleOnlyReorders ==
  (call.done /\ call.result.quiz # NoQuiz) =>
    \A k \in 1..Len(call.result.quiz) :
      LET before == QuestionsOf(call.service[1])[k]
          after == call.result.quiz[k]
      IN  /\ Len(after.options) = Len(before.options)
          /\ SameMultiset(after.options, before.options)
          /\ after.answer = before.answer
          /\ after.question = before.question
          /\ (before.answer \in Range(before.options)
                => after.answer \in Range(after.options))

\* C9 witness: a returned quiz in which the shuffle moved the options of a
\* question.
C9_Witness ==
  /\ call.done /\ call.result.quiz # NoQuiz
  /\ \E k \in 1..Len(call.result.quiz) :
       /\ call.result.quiz[k].options
            # QuestionsOf(call.service[1])[k].options
       /\ Len(call.result.quiz[k].options) = 3

Retryable(response) ==
  \/ response.kind = "timeout"
  \/ response.kind = "http" /\ response.status = 429

\* C10: when the service answers the first request with 429 or a timeout and
\* the second with status 200 and a well-formed quiz, generate_quiz returns
\* that quiz and no error.
C10_RetryThenSuccess ==
  (/\ call.done
   /\ call.text # Blank
   /\ Len(call.service) = 2
   /\ Retryable(call.service[1])
   /\ call.service[2] = GoodResponse)
    => (call.result.error = NoError /\ call.result.quiz # NoQuiz)

\* a first response after which the call is over: a transport failure or a
\* status other than 200 and 429
TerminalFailure(response) ==
  \/ response.kind = "transport"
  \/ response.kind = "http" /\ response.status \notin {200, 429}

\* C11: one generate_quiz call sends at most three requests, exactly one when
\* the first response is a terminal failure, and none when the text is empty
\* or whitespace.
C11_RequestBound ==
  call.done =>
    /\ call.requests <= 3
    /\ (call.text # Blank /\ TerminalFailure(call.service[1]))
         => call.requests = 1
    /\ call.text = Blank => call.requests = 0

\* C11 witness: a call whose first response was 401 while the service had a
\* good answer ready for a second request, over after one request.
C11_Witness ==
  /\ call.done /\ call.text # Blank
  /\ Len(call.service) = 2
  /\ call.service[1].kind = "http" /\ call.service[1].status = 401
  /\ call.requests = 1

\* C12: generate_quiz returns either a non-empty quiz and no error, or no
\* quiz and a non-empty error message, whatever the service does; a 401
\* response gives no quiz and the invalid-key message.
C12_ExactlyOneOfQuizAndError ==
  call.done =>
    /\ \/ /\ call.result.quiz # NoQuiz
          /\ Len(call.result.quiz) >= 1
          /\ call.result.error = NoError
       \/ /\ call.result.quiz = NoQuiz
          /\ call.result.error \notin {NoError, ""}
    /\ (/\ call.text # Blank
        /\ call.service[1].kind = "http"
        /\ call.service[1].status = 401)
         => call.result = [quiz |-> NoQuiz, error |-> MsgInvalidKey]

\* C12 witness: a call answered with 401 has returned the invalid-key message.
C12_Witness ==
  /\ call.done /\ call.text # Blank
  /\ call.service[1].kind = "http" /\ call.service[1].status = 401
  /\ call.result.quiz = NoQuiz
  /\ call.result.error = MsgInvalidKey

\* the payloads named in a reply text
PayloadsIn(content) == {content[k] : k \in DOMAIN content} \cap PayloadNames

\* a decoded reply the validation must reject
Rejected(quiz_data) ==
  \/ "quiz" \notin DOMAIN quiz_data
  \/ quiz_data.quiz = << >>
  \/ \E k \in DOMAIN quiz_data.quiz :
       \E key \in {"question", "options", "answer"} :
         key \notin DOMAIN quiz_data.quiz[k]

\* C13: a reply without the quiz key, with an empty quiz array, or with one
\* element that lacks question, options or answer gives no quiz and an
\* error, however many well-formed elements come before the faulty one.
C13_WholeBatchRejected ==
  (/\ call.done /\ call.text # Blank
   /\ call.service[1].kind = "http" /\ call.service[1].status = 200
   /\ \E p \in PayloadsIn(call.service[1].content) : Rejected(JsonValue(p)))
    => (call.result.quiz = NoQuiz /\ call.result.error # NoError)

\* C13 witness: a reply whose second element has no options, after a
\* well-formed first one, was rejected as a whole.
C13_Witness ==
  /\ call.done /\ call.text # Blank
  /\ call.service[1].kind = "http" /\ call.service[1].status = 200
  /\ call.service[1].content = <<"{", "J_late_no_options", "}">>
  /\ call.result = [quiz |-> NoQuiz, error |-> MsgInvalidFormat]

\* the reply texts that hold one JSON object and nothing else once the
\* whitespace and the fences around it are gone
DirectTexts(p) ==
  { <<"{", p, "}">>,
    <<"ws", "{", p, "}", "ws">>,
    <<"fence", "json", "ws", "{", p, "}", "ws", "fence">>,
    <<"fence", "ws", "{", p, "}", "ws", "fence">> }

\* the reply texts that hold one JSON object between prose
WrappedTexts(p) == { <<"prose", "{", p, "}", "prose">> }

Extractable(content) ==
  \E p \in PayloadNames : content \in DirectTexts(p) \cup WrappedTexts(p)

\* C18: the reply text is trimmed, a leading fence (with or without the json
\* tag) and a trailing fence are removed, and the rest is parsed; if that
\* fails, the text from the first "{" to the last "}" is parsed; the parse
\* error is returned exactly when both fail, so an object inside a fence or
\* inside prose is accepted.
C18_TwoTierExtraction ==
  (/\ call.done /\ call.text # Blank
   /\ call.service[1].kind = "http" /\ call.service[1].status = 200
   /\ call.service[1].shape = "ok")
    => LET cleaned == CleanMarkdown(Strip(call.service[1].content))
           both_fail ==
             /\ ~JsonParses(cleaned)
             /\ ~(HasMatch(cleaned) /\ JsonParses(MatchGroup(cleaned)))
       IN  /\ call.result.error = MsgParse <=> both_fail
           /\ call.result.error = MsgParse
                <=> ~Extractable(call.service[1].content)

\* C18 witness: an object between prose was found by the second attempt and
\* its quiz returned.
C18_Witness ==
  /\ call.done /\ call.text # Blank
  /\ call.service[1].content = <<"prose", "{", "J_one_of_two", "}", "prose">>
  /\ call.result.error = NoError
  /\ Len(call.result.quiz) = 1

\* C14: Take on the main page, Take in the library, Random Quiz and Retake
\* each leave the quiz page open with no recorded answer and the results
\* hidden, as does every other step that opens the quiz page; Retake keeps
\* current_quiz_index.
C14_QuizStartsEmpty ==
  [][/\ ((\E i \in Indices : TakeQuiz(i) \/ LibraryTake(i) \/ RandomQuiz(i))
           \/ Retake \/ (page # "quiz" /\ page' = "quiz"))
        => (/\ page' = "quiz"
            /\ user_answers' = EmptyDict
            /\ show_results' = FALSE)
     /\ Retake => current_quiz_index' = current_quiz_index]_vars

\* C14 witness: a quiz that was submitted before is on the quiz page again
\* with no answers and no results.
C14_Witness ==
  /\ QuizShown /\ ~show_results
  /\ user_answers = EmptyDict
  /\ total_questions_answered > 0
  /\ quiz_history # << >>

\* C15: recording answer B for question i leaves B as the answer of i,
\* adds no other index and changes no other index's answer, and recording B
\* again would leave the answers as they are.
C15_RecordIsUpsert ==
  [][\A i \in Indices, answer \in {"a", "b"} :
       RecordAnswer(i, answer) =>
         /\ DOMAIN user_answers' = DOMAIN user_answers \cup {i}
         /\ user_answers'[i] = answer
         /\ \A j \in DOMAIN user_answers \ {i} :
              user_answers'[j] = user_answers[j]
         /\ DictPut(user_answers', i, answer) = user_answers']_vars

\* C15 witness: both questions of a two-question quiz hold an answer, the
\* first one an answer that is not the option it was first shown with, and
\* a later run has seen them all.
C15_Witness ==
  /\ QuizShown /\ ~show_results
  /\ Len(ActiveQuiz) = 2
  /\ user_answers = [x \in {0, 1} |-> "b"]
  /\ submit_enabled

\* C16: a click on a Home control while a quiz or its results are on the
\* page leaves saved_quizzes, quiz_history and the two counters as they
\* were.
C16_HomeKeepsRecords ==
  [][(QuizShown /\ (NavHome \/ QuizHomeSidebar \/ ResultsHome))
       => UNCHANGED <<saved_quizzes, quiz_history, stats>>]_vars

\* C17: every step leaves quiz_history as it is, adds one entry at its end,
\* or empties it, and only Clear History and Clear All Data empty it.
C17_HistoryAppendOnly ==
  [][\/ quiz_history' = quiz_history
     \/ /\ Len(quiz_history') = Len(quiz_history) + 1
        /\ SubSeq(quiz_history', 1, Len(quiz_history)) = quiz_history
     \/ /\ quiz_history' = << >>
        /\ ClearHistory \/ ClearAllData]_vars

\* C17 witness: the history holds two entries, the second added to the first.
C17_Witness ==
  /\ Len(quiz_history) = 2
  /\ quiz_history[1].date < quiz_history[2].date

EntryInRange(h) == 0 <= h.correct /\ h.correct <= h.total /\ h.total >= 1

\* C19: the correct answers counted never exceed the questions counted and
\* neither is negative; every history entry has 0 <= correct <= total and
\* total >= 1; an entry's total is the length of the quiz it was scored on.
C19_CountersAndEntriesInRange ==
  /\ [](/\ 0 <= total_correct_answers
        /\ total_correct_answers <= total_questions_answered
        /\ \A k \in 1..Len(quiz_history) : EntryInRange(quiz_history[k]))
  /\ [][Len(quiz_history') = Len(quiz_history) + 1
          => /\ current_quiz_index \in DOMAIN saved_quizzes
             /\ quiz_history'[Len(quiz_history')].total
                  = Len(saved_quizzes[current_quiz_index])]_vars

\* C19 witness: a two-question quiz was scored with one correct answer.
C19_Witness ==
  /\ total_questions_answered = 2
  /\ total_correct_answers = 1
  /\ \E k \in 1..Len(quiz_history) :
       quiz_history[k].total = 2 /\ quiz_history[k].correct = 1

====
